---- MODULE Spec2Model ----
(***************************************************************************)
(* Model of neuralprophet/plotting_utils.py: the draw calls each plotting  *)
(* routine issues on its axes, the component descriptors the two panel     *)
(* dispatchers build, and the renderer each descriptor is dispatched to.   *)
(*                                                                         *)
(* Python strings are sequences of one-character strings, so that the      *)
(* substring / prefix tests of the dispatch are computed, not assumed.     *)
(* Python None is the empty tuple, a present value v is <<v>>.             *)
(* Floating point numbers are exact rationals <<numerator, denominator>>.  *)
(***************************************************************************)
EXTENDS Integers, Sequences, FiniteSets, TLC

VARIABLES
    pc,          \* position of the running call: "start", a step name, "done"
    fn,          \* the top-level function that was called
    m,           \* the fitted model handle (configuration only)
    fcst,        \* the forecast table
    args,        \* the remaining arguments of the call
    components,  \* plot_components / plot_parameters: the descriptor list
    panel,       \* index of the next descriptor to dispatch
    renderers,   \* renderer called for each dispatched panel, in order
    multiplicative_axes,  \* axes queued for the post-layout percent fix-up
    calls,       \* every call made on the figure and its axes, in order
    err          \* "" or the name of the exception that ended the call

vars == <<pc, fn, m, fcst, args, components, panel, renderers,
          multiplicative_axes, calls, err>>

-----------------------------------------------------------------------------
(* Bounds of the model *)

MaxForecasts == 2      \* n_forecasts of the models given to the dispatchers
MaxLags == 3           \* n_lags of those models
MaxFocus == 3          \* largest forecast_in_focus / focus / highlight tried
MaxHorizons == 6       \* horizon columns of the tables given to the overlay renderer
MaxOverplot == 12      \* largest num_overplot tried
NumRows == 3           \* rows of a forecast table
MaxWeightRows == 2     \* horizons of the weight matrices enumerated in full
MaxWeightLags == 3     \* lags of those matrices

-----------------------------------------------------------------------------
(* Python values *)

None == <<>>
Some(v) == <<v>>
IsNone(o) == o = <<>>
Val(o) == o[1]

RECURSIVE Gcd(_, _)
Gcd(a, b) == IF b = 0 THEN a ELSE Gcd(b, a % b)

\* rationals with a positive denominator, kept in lowest terms
Rat(n, d) == LET g == Gcd(IF n < 0 THEN -n ELSE n, d) IN <<n \div g, d \div g>>
RAdd(p, q) == Rat(p[1] * q[2] + q[1] * p[2], p[2] * q[2])
RSub(p, q) == Rat(p[1] * q[2] - q[1] * p[2], p[2] * q[2])
RMul(p, q) == Rat(p[1] * q[1], p[2] * q[2])
RDiv(p, q) == Rat(p[1] * q[2], p[2] * q[1])       \* q > 0
RLess(p, q) == p[1] * q[2] < q[1] * p[2]
RLeq(p, q) == p[1] * q[2] <= q[1] * p[2]
RInt(i) == <<i, 1>>

-----------------------------------------------------------------------------
(* Python strings *)

UpperCase == <<"A","B","C","D","E","F","G","H","I","J","K","L","M",
               "N","O","P","Q","R","S","T","U","V","W","X","Y","Z">>
LowerCase == <<"a","b","c","d","e","f","g","h","i","j","k","l","m",
               "n","o","p","q","r","s","t","u","v","w","x","y","z">>

LowerChar(c) ==
    IF \E i \in 1..26 : UpperCase[i] = c
    THEN LowerCase[CHOOSE i \in 1..26 : UpperCase[i] = c]
    ELSE c

\* str.lower()
Lower(s) == [i \in 1..Len(s) |-> LowerChar(s[i])]

\* sub in s
Contains(sub, s) ==
    \E i \in 0..(Len(s) - Len(sub)) : SubSeq(s, i + 1, i + Len(sub)) = sub

\* s.startswith(p)
StartsWith(s, p) == Len(s) >= Len(p) /\ SubSeq(s, 1, Len(p)) = p

Digits == <<"0","1","2","3","4","5","6","7","8","9">>

\* '{}'.format(n) of a non-negative int
RECURSIVE Str(_)
Str(n) == IF n < 10 THEN <<Digits[n + 1]>>
          ELSE Str(n \div 10) \o <<Digits[(n % 10) + 1]>>

\* membership in a Python list
InList(x, l) == \E i \in 1..Len(l) : l[i] = x

\* string literals of the source
s_ds == <<"d","s">>
s_y == <<"y">>
s_yhat == <<"y","h","a","t">>
s_trend == <<"t","r","e","n","d">>
s_Trend == <<"T","r","e","n","d">>
s_residuals == <<"r","e","s","i","d","u","a","l","s">>
s_Residuals == <<"R","e","s","i","d","u","a","l","s">>
s_ar == <<"a","r">>
s_AR == <<"A","R">>
s_cov == <<"c","o","v">>
s_forecast == <<"f","o","r","e","c","a","s","t">>
s_season == <<"s","e","a","s","o","n">>
s_season_ == <<"s","e","a","s","o","n","_">>
s_seasonality == <<"s","e","a","s","o","n","a","l","i","t","y">>
s__seasonality == <<" ">> \o s_seasonality
s_covar_ == <<"c","o","v","a","r","_">>
s_covariate == <<"c","o","v","a","r","i","a","t","e">>
s_auto_regression == <<"a","u","t","o","-","r","e","g","r","e","s","s","i","o","n">>
s_Auto_Regression == <<"A","u","t","o","-","R","e","g","r","e","s","s","i","o","n">>
s_AR_Forecast_ == <<"A","R"," ","F","o","r","e","c","a","s","t"," ">>
s_Covariate_q == <<"C","o","v","a","r","i","a","t","e"," ","\"">>
s_COV_q == <<"C","O","V"," ","\"">>
s_q == <<"\"">>
s_q_Forecast_ == <<"\""," ","F","o","r","e","c","a","s","t"," ">>
s_changepoints == <<"c","h","a","n","g","e","p","o","i","n","t","s">>
s_Trend_changepoints == s_Trend \o <<" ">> \o s_changepoints
s_lagged_weights == <<"l","a","g","g","e","d"," ","w","e","i","g","h","t","s">>
s_weekly == <<"w","e","e","k","l","y">>
s_yearly == <<"y","e","a","r","l","y">>

\* names a user may give to seasonalities and covariates
n_daily == <<"d","a","i","l","y">>
n_Weekly == <<"W","e","e","k","l","y">>
n_forecast_yearly == s_forecast \o <<"_">> \o s_yearly
n_temp == <<"t","e","m","p">>
n_temp1 == n_temp \o <<"1">>
n_temperature == n_temp \o <<"e","r","a","t","u","r","e">>
n_forecast_temp == s_forecast \o <<"_">> \o n_temp
n_season_temp == s_season_ \o n_temp

-----------------------------------------------------------------------------
(* The forecast table: a pandas DataFrame, as far as the plots read it.    *)
(* columns: the column names in order; notnull[i]: the rows where column i *)
(* holds a value.                                                          *)

Rows == 1..NumRows

HasColumn(df, col) == InList(col, df.columns)

ColumnIndex(df, col) == CHOOSE i \in 1..Len(df.columns) : df.columns[i] = col

\* y.notnull() of y = df[col], as the set of rows it selects
NotNullRows(df, col) == df.notnull[ColumnIndex(df, col)]

\* the table with one more column
AddColumn(df, col, rows) ==
    [columns |-> Append(df.columns, col), notnull |-> Append(df.notnull, rows)]

\* the columns <prefix>1 .. <prefix>n; horizon k has no value in the first
\* k - 1 rows
RECURSIVE AddHorizons(_, _, _)
AddHorizons(df, prefix, n) ==
    IF n = 0 THEN df
    ELSE AddColumn(AddHorizons(df, prefix, n - 1), prefix \o Str(n),
                   {r \in Rows : r >= n})

RECURSIVE AddSeasons(_, _)
AddSeasons(df, periods) ==
    IF periods = <<>> THEN df
    ELSE AddColumn(AddSeasons(df, SubSeq(periods, 1, Len(periods) - 1)),
                   s_season_ \o periods[Len(periods)].name, Rows)

RECURSIVE AddCovariates(_, _, _)
AddCovariates(df, names, n) ==
    IF names = <<>> THEN df
    ELSE AddHorizons(AddCovariates(df, SubSeq(names, 1, Len(names) - 1), n),
                     s_covar_ \o names[Len(names)], n)

\* the table m.predict produces for model mm
Predict(mm, with_residuals) ==
    LET base == [columns |-> <<s_ds, s_y>>, notnull |-> <<Rows, Rows>>]
        d1 == AddHorizons(base, s_yhat, mm.n_forecasts)
        d2 == IF with_residuals THEN AddColumn(d1, s_residuals, Rows) ELSE d1
        d3 == AddColumn(d2, s_trend, Rows)
        d4 == IF IsNone(mm.season_config) THEN d3
              ELSE AddSeasons(d3, Val(mm.season_config).periods)
        d5 == IF mm.n_lags > 0 THEN AddHorizons(d4, s_ar, mm.n_forecasts) ELSE d4
    IN  IF IsNone(mm.covar_config) THEN d5
        ELSE AddCovariates(d5, Val(mm.covar_config), mm.n_forecasts)

-----------------------------------------------------------------------------
(* Results of a renderer: the calls it made on the axes before it returned *)
(* or raised, and the exception it raised ("" when it returned).           *)

Returned(cs) == [err |-> "", calls |-> cs]
Raised(e, cs) == [err |-> e, calls |-> cs]

\* ax.plot / ax.bar: op is the Axes method, col the table column drawn, data
\* "raw" or "rolling_mean", x the rows drawn, style the line style / format
Mark(op, ax, col, data, rows, color, alpha, style) ==
    [op |-> op, ax |-> ax, col |-> col, data |-> data, x |-> rows,
     color |-> color, alpha |-> alpha, style |-> style]

SetYAsPercent(ax) == [op |-> "set_y_as_percent", ax |-> ax]
TightLayout == [op |-> "tight_layout"]

IsMark(c) == c.op \in {"plot", "bar"}

Opaque == RInt(1)

-----------------------------------------------------------------------------
(* plot: the composite forecast *)

\* alpha of the i-th step-ahead line, i from 0
PlotAlpha(i) == RAdd(Rat(2, 10), RDiv(RInt(2), RAdd(RInt(i), Rat(25, 10))))

YhatColNames(df) == SelectSeq(df.columns, LAMBDA c : Contains(s_yhat, c))

\* for i in range(len(yhat_col_names)): ax.plot(ds, fcst['yhat{i+1}'], ...)
RECURSIVE PlotOverlays(_, _, _, _)
PlotOverlays(df, i, n, done) ==
    IF i >= n THEN Returned(done)
    ELSE LET col == s_yhat \o Str(i + 1)
         IN  IF ~HasColumn(df, col) THEN Raised("KeyError", done)
             ELSE PlotOverlays(df, i + 1, n,
                      Append(done, Mark("plot", 1, col, "raw", Rows,
                                        "#0072B2", PlotAlpha(i), "-")))

\* PlotHighlight without the marker overlay
PlotHighlight_LineOnly(df, highlight_forecast) ==
    IF IsNone(highlight_forecast) THEN Returned(<<>>)
    ELSE LET col == s_yhat \o Str(Val(highlight_forecast))
         IN  IF ~HasColumn(df, col) THEN Raised("KeyError", <<>>)
             ELSE Returned(<<Mark("plot", 1, col, "raw", Rows, "b", Opaque, "-")>>)

\* if highlight_forecast is not None: the solid line, then the 'bx' markers
PlotHighlight(df, highlight_forecast) ==
    IF IsNone(highlight_forecast) THEN Returned(<<>>)
    ELSE LET col == s_yhat \o Str(Val(highlight_forecast))
         IN  IF ~HasColumn(df, col) THEN Raised("KeyError", <<>>)
             ELSE Returned(<<Mark("plot", 1, col, "raw", Rows, "b", Opaque, "-"),
                             Mark("plot", 1, col, "raw", Rows, "b", Opaque, "bx")>>)

\* ax.plot(ds, fcst['y'], 'k.')
PlotActual(df) ==
    IF ~HasColumn(df, s_y) THEN Raised("KeyError", <<>>)
    ELSE Returned(<<Mark("plot", 1, s_y, "raw", Rows, "k", Opaque, "k.")>>)

\* a then b: b runs only if a returned
Then(a, b) == IF a.err # "" THEN a ELSE [err |-> b.err, calls |-> a.calls \o b.calls]

plot(df, highlight_forecast) ==
    Then(Then(Then(PlotOverlays(df, 0, Len(YhatColNames(df)), <<>>),
                   PlotHighlight(df, highlight_forecast)),
              PlotActual(df)),
         Returned(<<TightLayout>>))

-----------------------------------------------------------------------------
(* plot_forecast_component: the single-series renderer *)

ForecastComponentParams ==
    {"fcst", "comp_name", "plot_name", "ax", "figsize", "multiplicative", "bar", "rolling"}

\* a keyword argument of a call, or the default of the signature
Kw(kw, key, default) == IF key \in DOMAIN kw THEN kw[key] ELSE default

\* Python's binding of keyword arguments to a signature
BindsTo(kw, params, required) ==
    DOMAIN kw \subseteq params /\ required \subseteq DOMAIN kw

plot_forecast_component(df, ax, kw) ==
    IF ~BindsTo(kw, ForecastComponentParams, {"comp_name"}) THEN Raised("TypeError", <<>>)
    ELSE
    LET comp_name == kw.comp_name
        bar == Kw(kw, "bar", FALSE)
        rolling == Kw(kw, "rolling", 0)          \* 0: rolling=None
        multiplicative == Kw(kw, "multiplicative", FALSE)
        op == IF bar THEN "bar" ELSE "plot"
        underlay == IF rolling # 0
                    THEN <<Mark(op, ax, comp_name, "rolling_mean", Rows,
                                "#0072B2", Rat(1, 2), "-")>>
                    ELSE <<>>
        series == <<Mark(op, ax, comp_name, "raw", Rows, "#0072B2", Opaque, "-")>>
        percent == IF multiplicative THEN <<SetYAsPercent(ax)>> ELSE <<>>
    IN  IF ~HasColumn(df, comp_name) THEN Raised("KeyError", <<>>)
        ELSE Returned(underlay \o series \o percent)

-----------------------------------------------------------------------------
(* plot_multiforecast_component: the multi-horizon overlay renderer *)

MultiforecastComponentParams ==
    {"fcst", "comp_name", "plot_name", "ax", "figsize", "multiplicative", "bar",
     "focus", "num_overplot"}

alpha_min == Rat(2, 10)
alpha_softness == Rat(12, 10)

\* alpha = alpha_min + alpha_softness*(1.0-alpha_min) / (i + 1.0*alpha_softness)
OverplotAlpha(i) ==
    RAdd(alpha_min,
         RDiv(RMul(alpha_softness, RSub(RInt(1), alpha_min)),
              RAdd(RInt(i), RMul(RInt(1), alpha_softness))))

\* list(range(n)): ReversedRange without the reversal
ForwardRange(n) == [j \in 1..n |-> j - 1]

\* list(range(n))[::-1]
ReversedRange(n) == [j \in 1..n |-> n - j]

\* [col_name for col_name in fcst.columns if col_name.startswith(comp_name)]
ColNames(df, comp_name) == SelectSeq(df.columns, LAMBDA c : StartsWith(c, comp_name))

\* assert num_overplot <= len(col_names): "" when it passes
OverplotAssert(num_overplot, col_names) ==
    IF IsNone(num_overplot) THEN "TypeError"      \* None <= int
    ELSE IF Val(num_overplot) <= Len(col_names) THEN ""
    ELSE "AssertionError"

\* one series: y = fcst[col]; notnull = y.notnull(); ax.bar/plot(fcst_t[notnull], y[notnull])
Series(df, ax, col, bar, color, alpha) ==
    Mark(IF bar THEN "bar" ELSE "plot", ax, col, "raw", NotNullRows(df, col),
         color, alpha, "-")

\* for i in list(range(num_overplot))[::-1]: ...
RECURSIVE Overplot(_, _, _, _, _, _)
Overplot(df, ax, comp_name, bar, idx, done) ==
    IF idx = <<>> THEN Returned(done)
    ELSE LET i == Head(idx)
             col == comp_name \o Str(i + 1)
         IN  IF ~HasColumn(df, col) THEN Raised("KeyError", done)
             ELSE Overplot(df, ax, comp_name, bar, Tail(idx),
                           Append(done, Series(df, ax, col, bar, "#0072B2",
                                               OverplotAlpha(i))))

\* DrawsFocus comparing focus with the overlaid count
DrawsFocus_BeyondOverplot(num_overplot, focus) ==
    IsNone(num_overplot) \/ focus > Val(num_overplot)

\* if num_overplot is None or focus > 1
DrawsFocus(num_overplot, focus) == IsNone(num_overplot) \/ focus > 1

FocusSeries(df, ax, comp_name, bar, focus) ==
    LET col == comp_name \o Str(focus)
    IN  IF ~HasColumn(df, col) THEN Raised("KeyError", <<>>)
        ELSE Returned(<<Series(df, ax, col, bar, "b", Opaque)>>)

plot_multiforecast_component(df, ax, kw) ==
    IF ~BindsTo(kw, MultiforecastComponentParams, {"comp_name"})
    THEN Raised("TypeError", <<>>)
    ELSE
    LET comp_name == kw.comp_name
        bar == Kw(kw, "bar", FALSE)
        focus == Kw(kw, "focus", 1)
        num_overplot == Kw(kw, "num_overplot", None)
        multiplicative == Kw(kw, "multiplicative", FALSE)
        failed == OverplotAssert(num_overplot, ColNames(df, comp_name))
        overlays == IF ~IsNone(num_overplot)
                    THEN Overplot(df, ax, comp_name, bar,
                                  ReversedRange(Val(num_overplot)), <<>>)
                    ELSE Returned(<<>>)
        focused == IF DrawsFocus(num_overplot, focus)
                   THEN FocusSeries(df, ax, comp_name, bar, focus)
                   ELSE Returned(<<>>)
        percent == IF multiplicative THEN <<SetYAsPercent(ax)>> ELSE <<>>
    IN  IF failed # "" THEN Raised(failed, <<>>)
        ELSE Then(Then(overlays, focused), Returned(percent))

-----------------------------------------------------------------------------
(* plot_components: the component panel dispatcher *)

\* components = [{'plot_name': 'Trend', 'comp_name': 'trend'}]
TrendComponents == << [plot_name |-> s_Trend, comp_name |-> s_trend] >>

\* one descriptor per name of m.season_config.periods
SeasonDescriptors(periods) ==
    [i \in 1..Len(periods) |->
        [plot_name |-> periods[i].name \o s__seasonality,
         comp_name |-> s_season_ \o periods[i].name]]

SeasonComponents(mm) ==
    IF ~IsNone(mm.season_config) THEN SeasonDescriptors(Val(mm.season_config).periods)
    ELSE <<>>

\* ArComponents with the focus variant placed before the Auto-Regression panel
ArComponents_FocusFirst(mm, forecast_in_focus) ==
    IF mm.n_lags > 0
    THEN (IF ~IsNone(forecast_in_focus)
          THEN << [plot_name |-> s_AR_Forecast_ \o Str(Val(forecast_in_focus)),
                   comp_name |-> s_ar \o Str(Val(forecast_in_focus))] >>
          ELSE <<>>)
         \o << [plot_name |-> s_Auto_Regression, comp_name |-> s_ar,
                num_overplot |-> Some(mm.n_forecasts), bar |-> TRUE] >>
    ELSE <<>>

\* the descriptors' num_overplot is an int or None: num_overplot = n is <<n>>
ArComponents(mm, forecast_in_focus) ==
    IF mm.n_lags > 0
    THEN << [plot_name |-> s_Auto_Regression, comp_name |-> s_ar,
             num_overplot |-> Some(mm.n_forecasts), bar |-> TRUE] >>
         \o (IF ~IsNone(forecast_in_focus)
             THEN << [plot_name |-> s_AR_Forecast_ \o Str(Val(forecast_in_focus)),
                      comp_name |-> s_ar \o Str(Val(forecast_in_focus))] >>
             ELSE <<>>)
    ELSE <<>>

CovarDescriptors(mm, name, forecast_in_focus) ==
    << [plot_name |-> s_Covariate_q \o name \o s_q,
        comp_name |-> s_covar_ \o name,
        num_overplot |-> Some(mm.n_forecasts), bar |-> TRUE] >>
    \o (IF ~IsNone(forecast_in_focus)
        THEN << [plot_name |-> s_COV_q \o name \o s_q_Forecast_
                                 \o Str(Val(forecast_in_focus)),
                 comp_name |-> s_covar_ \o name \o Str(Val(forecast_in_focus))] >>
        ELSE <<>>)

RECURSIVE CovarLoop(_, _, _)
CovarLoop(mm, names, forecast_in_focus) ==
    IF names = <<>> THEN <<>>
    ELSE CovarDescriptors(mm, Head(names), forecast_in_focus)
         \o CovarLoop(mm, Tail(names), forecast_in_focus)

CovarComponents(mm, forecast_in_focus) ==
    IF ~IsNone(mm.covar_config) THEN CovarLoop(mm, Val(mm.covar_config), forecast_in_focus)
    ELSE <<>>

\* if 'residuals' in fcst
ResidualComponents(df) ==
    IF HasColumn(df, s_residuals)
    THEN << [plot_name |-> s_Residuals, comp_name |-> s_residuals,
             rolling |-> 7, bar |-> TRUE] >>
    ELSE <<>>

BuildComponents(mm, df, forecast_in_focus) ==
    TrendComponents \o SeasonComponents(mm) \o ArComponents(mm, forecast_in_focus)
        \o CovarComponents(mm, forecast_in_focus) \o ResidualComponents(df)

\* the branch of the if / elif chain a lower-cased plot name takes
ComponentBranch(name) ==
    IF \/ InList(name, <<s_trend, s_residuals>>)
       \/ (Contains(s_ar, name) /\ Contains(s_forecast, name))
       \/ (Contains(s_cov, name) /\ Contains(s_forecast, name))
    THEN "single"
    ELSE IF Contains(s_season, name) THEN "season"
    ELSE IF Contains(s_auto_regression, name) \/ Contains(s_covariate, name) THEN "multi"
    ELSE "none"

\* one pass of the loop body for descriptor comp on axes ax:
\* the renderer called ("" if none), the axes queued for the percent fix-up,
\* and the renderer's result
DispatchComponent(mm, df, ax, comp) ==
    LET branch == ComponentBranch(Lower(comp.plot_name))
    IN  CASE branch = "single" ->
               [renderer |-> "plot_forecast_component", queued |-> <<>>,
                result |-> plot_forecast_component(df, ax, comp)]
          [] branch = "season" ->
               IF IsNone(mm.season_config)        \* None.mode
               THEN [renderer |-> "", queued |-> <<>>,
                     result |-> Raised("AttributeError", <<>>)]
               ELSE [renderer |-> "plot_forecast_component",
                     queued |-> IF Val(mm.season_config).mode = "multiplicative"
                                THEN <<ax>> ELSE <<>>,
                     result |-> plot_forecast_component(df, ax, comp)]
          [] branch = "multi" ->
               [renderer |-> "plot_multiforecast_component", queued |-> <<>>,
                result |-> plot_multiforecast_component(df, ax, comp)]
          [] OTHER ->
               [renderer |-> "", queued |-> <<>>, result |-> Returned(<<>>)]

\* fig, axes = plt.subplots(npanel, 1, ...)
Subplots(npanel) == [op |-> "subplots", npanel |-> npanel]

\* for ax in multiplicative_axes: ax = set_y_as_percent(ax)
PercentFixup(axes) == [i \in 1..Len(axes) |-> SetYAsPercent(axes[i])]

-----------------------------------------------------------------------------
(* The renderers of plot_parameters *)

\* an entry of m.season_config.periods
Season(name, period) == [name |-> name, period |-> period]

Weekly == RInt(7)
Yearly == Rat(1461, 4)       \* 365.25
Daily == RInt(1)

\* m.season_config.periods[name]['period']
PeriodOf(periods, name) ==
    periods[CHOOSE i \in 1..Len(periods) : periods[i].name = name].period

NaN == <<0, 0>>

\* a / b of two non-negative numpy floats that are whole numbers (0/0 is nan)
Divide(a, b) == IF b = 0 THEN NaN ELSE Rat(a, b)

Abs(x) == IF x < 0 THEN -x ELSE x

RECURSIVE SumSeq(_)
SumSeq(v) == IF v = <<>> THEN 0 ELSE Head(v) + SumSeq(Tail(v))

\* np.sum(np.abs(weights), axis=0) of a matrix given as its rows
AbsSumAxis0(w) ==
    [j \in 1..Len(w[1]) |-> SumSeq([h \in 1..Len(w) |-> Abs(w[h][j])])]

\* weights / np.sum(weights)
Normalized(v) == [j \in 1..Len(v) |-> Divide(v[j], SumSeq(v))]

\* list(range(1, 1 + n_lags))[::-1]
LagsRange(n_lags) == [j \in 1..n_lags |-> n_lags - j + 1]

\* ax.bar(x, height): x and height are broadcast against each other
Bar(ax, x, height, width) ==
    LET n == IF Len(x) = 1 THEN Len(height) ELSE Len(x)
        stretch(v) == IF Len(v) = n THEN v ELSE [j \in 1..n |-> v[1]]
    IN  IF Len(x) = Len(height) \/ Len(x) = 1 \/ Len(height) = 1
        THEN Returned(<< [op |-> "bar", ax |-> ax, x |-> stretch(x),
                          height |-> stretch(height), width |-> width,
                          color |-> "#0072B2"] >>)
        ELSE Raised("ValueError", <<>>)

\* n_lags = weights.shape[0]
LagCount(weights) == Len(weights)

\* plot_lagged_weights(weights, comp_name, focus, ax) of a 2-d weights array
plot_lagged_weights(weights, comp_name, focus, ax) ==
    LET lags_range == LagsRange(LagCount(weights))
    IN  IF IsNone(focus)
        THEN Then(Bar(ax, lags_range, Normalized(AbsSumAxis0(weights)), Rat(1, 1)),
                  Returned(<<SetYAsPercent(ax)>>))
        ELSE IF Val(focus) > Len(weights) THEN Raised("IndexError", <<>>)
        ELSE LET row == weights[Val(focus)]        \* weights[focus-1, :]
             IN  Bar(ax, lags_range, [j \in 1..Len(row) |-> RInt(row[j])], Rat(8, 10))

\* plot_trend_change: one bar per trend delta, over range(0, 1 + n_changepoints)
plot_trend_change(mm, ax) ==
    Bar(ax, [j \in 1..(1 + mm.n_changepoints) |-> j - 1],
        [j \in 1..(1 + mm.n_changepoints) |-> "delta"], Rat(1, 1))

\* plot_trend_0: the two-point trend line
plot_trend_0(mm, ax) ==
    Returned(<<Mark("plot", ax, s_trend, "trend_0", <<"t_start", "t_end">>,
                    "#0072B2", Opaque, "-")>>)

\* if m.season_config.mode == 'multiplicative': ax = set_y_as_percent(ax)
SeasonPercent(mm, ax) ==
    IF Val(mm.season_config).mode = "multiplicative" THEN <<SetYAsPercent(ax)>> ELSE <<>>

plot_weekly(mm, ax, weekly_start, comp_name) ==
    Returned(<<Mark("plot", ax, comp_name, "seasonal",
                    [start |-> weekly_start, periods |-> 7], "#0072B2", Opaque, "-")>>
             \o SeasonPercent(mm, ax))

plot_yearly(mm, ax, yearly_start, comp_name) ==
    Returned(<<Mark("plot", ax, comp_name, "seasonal",
                    [start |-> yearly_start, periods |-> 365], "#0072B2", Opaque, "-")>>
             \o SeasonPercent(mm, ax))

\* plot_custom_season leaving its panel empty instead of raising
plot_custom_season_Skipped(mm, ax, comp_name) == Returned(<<>>)

plot_custom_season(mm, ax, comp_name) == Raised("NotImplementedError", <<>>)

-----------------------------------------------------------------------------
(* plot_parameters: the parameter panel dispatcher *)

\* m.model.ar_weights / m.model.get_covar_weights(name): shape [n_forecasts, n_lags]
LearnedWeights(mm) ==
    [h \in 1..mm.n_forecasts |->
        [l \in 1..mm.n_lags |-> IF (h + l) % 2 = 0 THEN h + l ELSE -(h + l)]]

ChangepointParameters(mm) ==
    IF mm.n_changepoints > 0 THEN << [plot_name |-> s_Trend_changepoints] >> ELSE <<>>

SeasonParameters(mm) ==
    IF ~IsNone(mm.season_config)
    THEN LET periods == Val(mm.season_config).periods
         IN  [i \in 1..Len(periods) |->
                 [plot_name |-> s_seasonality, comp_name |-> periods[i].name]]
    ELSE <<>>

\* the 'lagged weights' descriptor of one source, and its focus duplicate
LaggedParameters(comp_name, weights, forecast_in_focus) ==
    << [plot_name |-> s_lagged_weights, comp_name |-> comp_name,
        weights |-> weights, focus |-> None] >>
    \o (IF ~IsNone(forecast_in_focus)
        THEN << [plot_name |-> s_lagged_weights, comp_name |-> comp_name,
                 weights |-> weights, focus |-> forecast_in_focus] >>
        ELSE <<>>)

ArParameters(mm, forecast_in_focus) ==
    IF mm.n_lags > 0 THEN LaggedParameters(s_AR, LearnedWeights(mm), forecast_in_focus)
    ELSE <<>>

RECURSIVE CovarParameterLoop(_, _, _)
CovarParameterLoop(mm, names, forecast_in_focus) ==
    IF names = <<>> THEN <<>>
    ELSE LaggedParameters(s_COV_q \o Head(names) \o s_q, LearnedWeights(mm),
                          forecast_in_focus)
         \o CovarParameterLoop(mm, Tail(names), forecast_in_focus)

CovarParameters(mm, forecast_in_focus) ==
    IF ~IsNone(mm.covar_config)
    THEN CovarParameterLoop(mm, Val(mm.covar_config), forecast_in_focus)
    ELSE <<>>

\* TrendFallback without the fallback descriptor
TrendFallback_Omitted(comps) == comps

\* if len(components) == 0: components.append({'plot_name': 'Trend'})
TrendFallback(comps) == IF Len(comps) = 0 THEN << [plot_name |-> s_Trend] >> ELSE comps

BuildParameters(mm, forecast_in_focus) ==
    TrendFallback(ChangepointParameters(mm) \o SeasonParameters(mm)
                  \o ArParameters(mm, forecast_in_focus)
                  \o CovarParameters(mm, forecast_in_focus))

\* the renderer a seasonality is routed to
SeasonRenderer(mm, name) ==
    LET period == PeriodOf(Val(mm.season_config).periods, name)
    IN  IF Lower(name) = s_weekly \/ period = Weekly THEN "plot_weekly"
        ELSE IF Lower(name) = s_yearly \/ period = Yearly THEN "plot_yearly"
        ELSE "plot_custom_season"

\* the branch of the if / elif chain a lower-cased plot name takes
ParameterBranch(plot_name) ==
    IF StartsWith(plot_name, s_trend)
    THEN (IF Contains(s_changepoints, plot_name) THEN "plot_trend_change"
          ELSE "plot_trend_0")
    ELSE IF StartsWith(plot_name, s_seasonality) THEN "seasonality"
    ELSE IF plot_name = s_lagged_weights THEN "plot_lagged_weights"
    ELSE "none"

\* one pass of the loop body of plot_parameters for descriptor comp on axes ax
DispatchParameter(mm, a, ax, comp) ==
    LET branch == ParameterBranch(Lower(comp.plot_name))
    IN  CASE branch = "plot_trend_change" ->
               [renderer |-> branch, queued |-> <<>>, result |-> plot_trend_change(mm, ax)]
          [] branch = "plot_trend_0" ->
               [renderer |-> branch, queued |-> <<>>, result |-> plot_trend_0(mm, ax)]
          [] branch = "seasonality" ->
               LET name == comp.comp_name
                   r == SeasonRenderer(mm, name)
               IN  [renderer |-> r,
                    queued |-> IF Val(mm.season_config).mode = "multiplicative"
                               THEN <<ax>> ELSE <<>>,
                    result |->
                       CASE r = "plot_weekly" -> plot_weekly(mm, ax, a.weekly_start, name)
                         [] r = "plot_yearly" -> plot_yearly(mm, ax, a.yearly_start, name)
                         [] OTHER -> plot_custom_season(mm, ax, name)]
          [] branch = "plot_lagged_weights" ->
               [renderer |-> branch, queued |-> <<>>,
                result |-> plot_lagged_weights(comp.weights, comp.comp_name,
                                               comp.focus, ax)]
          [] OTHER ->
               [renderer |-> "", queued |-> <<>>, result |-> Returned(<<>>)]

-----------------------------------------------------------------------------
(* Inputs: the model handles and the tables the calls are tried on *)

\* m.season_config.periods, in registry order
SeasonRegistries ==
    { <<>>,
      <<Season(s_yearly, Yearly)>>,
      <<Season(s_yearly, Yearly), Season(n_Weekly, Weekly)>>,
      <<Season(n_daily, Daily), Season(s_weekly, Weekly)>>,
      <<Season(n_forecast_yearly, Yearly)>>,
      <<Season(s_weekly, Weekly), Season(n_daily, Daily)>>,
      <<Season(n_Weekly, Daily), Season(s_yearly, Weekly)>> }

SeasonConfigs ==
    {None} \cup { Some([periods |-> ps, mode |-> md]) :
                    ps \in SeasonRegistries, md \in {"additive", "multiplicative"} }

\* list(m.covar_config.keys())
CovarConfigs ==
    {None, Some(<<n_temp>>), Some(<<n_temp, n_temperature>>),
     Some(<<n_forecast_temp>>), Some(<<n_season_temp, n_temp>>)}

Model(n_lags, n_forecasts, n_changepoints, season_config, covar_config) ==
    [n_lags |-> n_lags, n_forecasts |-> n_forecasts, n_changepoints |-> n_changepoints,
     season_config |-> season_config, covar_config |-> covar_config]

Models ==
    { Model(l, f, c, sc, cc) :
        l \in 0..MaxLags, f \in 1..MaxForecasts, c \in {0, 1},
        sc \in SeasonConfigs, cc \in CovarConfigs }

\* the models whose tables are given to plot and to the overlay renderer
OverlayCovarConfigs ==
    {None, Some(<<n_temp>>), Some(<<n_temp, n_temperature>>), Some(<<n_temp, n_temp1>>)}

OverlayModels ==
    { Model(l, f, 0, None, cc) :
        l \in {0, 1}, f \in 1..MaxHorizons, cc \in OverlayCovarConfigs }

NoModel == Model(0, 0, 0, None, None)
NoTable == [columns |-> <<>>, notnull |-> <<>>]
NoArgs == <<>>

OptionalInt(lo, hi) == {None} \cup { Some(i) : i \in lo..hi }

-----------------------------------------------------------------------------
(* The calls *)

Init ==
    /\ pc = "start"
    /\ fn = ""
    /\ m = NoModel
    /\ fcst = NoTable
    /\ args = NoArgs
    /\ components = <<>>
    /\ panel = 0
    /\ renderers = <<>>
    /\ multiplicative_axes = <<>>
    /\ calls = <<>>
    /\ err = ""

\* a call of a function that runs on one axes, start to end
Finish(f, mm, df, a, r) ==
    /\ fn' = f
    /\ m' = mm
    /\ fcst' = df
    /\ args' = a
    /\ calls' = r.calls
    /\ err' = r.err
    /\ pc' = "done"
    /\ UNCHANGED <<components, panel, renderers, multiplicative_axes>>

\* plot(fcst, highlight_forecast=h)
Call_plot ==
    /\ pc = "start"
    /\ \E mm \in OverlayModels, res \in BOOLEAN, h \in OptionalInt(1, MaxFocus) :
         LET df == Predict(mm, res)
         IN  Finish("plot", m, df, [highlight_forecast |-> h], plot(df, h))

\* the keyword arguments of a direct call of the overlay renderer;
\* num_overplot = None is the call that leaves it out
OverlayKw(comp_name, bar, focus, num_overplot) ==
    LET kw == [comp_name |-> comp_name, bar |-> bar, focus |-> focus]
    IN  IF IsNone(num_overplot) THEN kw
        ELSE kw @@ [num_overplot |-> num_overplot]

\* plot_multiforecast_component(fcst, comp_name, ax=ax, bar=, focus=, num_overplot=)
Call_plot_multiforecast_component ==
    /\ pc = "start"
    /\ \E mm \in OverlayModels, comp_name \in {s_ar, s_covar_ \o n_temp},
          bar \in BOOLEAN, focus \in 1..MaxFocus,
          num_overplot \in OptionalInt(0, MaxOverplot) :
         LET df == Predict(mm, FALSE)
             kw == OverlayKw(comp_name, bar, focus, num_overplot)
         IN  Finish("plot_multiforecast_component", m, df, kw,
                    plot_multiforecast_component(df, 1, kw))

\* plot_components(m, fcst, forecast_in_focus): the descriptor list is built
Call_plot_components ==
    /\ pc = "start"
    /\ \E mm \in Models, res \in BOOLEAN, focus \in OptionalInt(1, MaxFocus) :
         /\ mm.n_changepoints = 0
         /\ m' = mm
         /\ fcst' = Predict(mm, res)
         /\ args' = [forecast_in_focus |-> focus]
         /\ components' = BuildComponents(mm, Predict(mm, res), focus)
    /\ fn' = "plot_components"
    /\ pc' = "subplots"
    /\ UNCHANGED <<panel, renderers, multiplicative_axes, calls, err>>

\* npanel = len(components); plt.subplots(npanel, 1); multiplicative_axes = []
AllocatePanels ==
    /\ pc = "subplots"
    /\ fn = "plot_components"
    /\ calls' = Append(calls, Subplots(Len(components)))
    /\ panel' = 1
    /\ multiplicative_axes' = <<>>
    /\ pc' = "dispatch"
    /\ UNCHANGED <<fn, m, fcst, args, components, renderers, err>>

\* one iteration of: for ax, comp in zip(axes, components)
DispatchPanel ==
    /\ pc = "dispatch"
    /\ fn = "plot_components"
    /\ panel <= Len(components)
    /\ LET d == DispatchComponent(m, fcst, panel, components[panel])
       IN  /\ renderers' = Append(renderers, d.renderer)
           /\ multiplicative_axes' = multiplicative_axes \o d.queued
           /\ calls' = calls \o d.result.calls
           /\ err' = d.result.err
           /\ pc' = IF d.result.err # "" THEN "done" ELSE pc
           /\ panel' = IF d.result.err # "" THEN panel ELSE panel + 1
    /\ UNCHANGED <<fn, m, fcst, args, components>>

\* fig.tight_layout()
Layout ==
    /\ pc = "dispatch"
    /\ fn = "plot_components"
    /\ panel > Len(components)
    /\ calls' = Append(calls, TightLayout)
    /\ pc' = "percent"
    /\ UNCHANGED <<fn, m, fcst, args, components, panel, renderers,
                   multiplicative_axes, err>>

\* the percent fix-up after the layout; return fig
ResetPercentAxes ==
    /\ pc = "percent"
    /\ fn = "plot_components"
    /\ calls' = calls \o PercentFixup(multiplicative_axes)
    /\ pc' = "done"
    /\ UNCHANGED <<fn, m, fcst, args, components, panel, renderers,
                   multiplicative_axes, err>>

\* plot_parameters(m, forecast_in_focus): the descriptor list is built
Call_plot_parameters ==
    /\ pc = "start"
    /\ \E mm \in Models, focus \in OptionalInt(1, MaxFocus) :
         \* covariate weights have one column per lag: a model with lagged
         \* covariates has n_lags > 0
         /\ IsNone(mm.covar_config) \/ mm.n_lags > 0
         /\ m' = mm
         /\ args' = [forecast_in_focus |-> focus, weekly_start |-> 0, yearly_start |-> 0]
         /\ components' = BuildParameters(mm, focus)
    /\ fn' = "plot_parameters"
    /\ pc' = "subplots"
    /\ UNCHANGED <<fcst, panel, renderers, multiplicative_axes, calls, err>>

\* npanel = len(components); plt.subplots(npanel, 1); multiplicative_axes = []
AllocateParameterPanels ==
    /\ pc = "subplots"
    /\ fn = "plot_parameters"
    /\ calls' = Append(calls, Subplots(Len(components)))
    /\ panel' = 1
    /\ multiplicative_axes' = <<>>
    /\ pc' = "dispatch"
    /\ UNCHANGED <<fn, m, fcst, args, components, renderers, err>>

\* one iteration of: for ax, comp in zip(axes, components)
DispatchParameterPanel ==
    /\ pc = "dispatch"
    /\ fn = "plot_parameters"
    /\ panel <= Len(components)
    /\ LET d == DispatchParameter(m, args, panel, components[panel])
       IN  /\ renderers' = Append(renderers, d.renderer)
           /\ multiplicative_axes' = multiplicative_axes \o d.queued
           /\ calls' = calls \o d.result.calls
           /\ err' = d.result.err
           /\ pc' = IF d.result.err # "" THEN "done" ELSE pc
           /\ panel' = IF d.result.err # "" THEN panel ELSE panel + 1
    /\ UNCHANGED <<fn, m, fcst, args, components>>

\* fig.tight_layout()
ParameterLayout ==
    /\ pc = "dispatch"
    /\ fn = "plot_parameters"
    /\ panel > Len(components)
    /\ calls' = Append(calls, TightLayout)
    /\ pc' = "percent"
    /\ UNCHANGED <<fn, m, fcst, args, components, panel, renderers,
                   multiplicative_axes, err>>

\* the percent fix-up after the layout; return fig
ResetParameterPercentAxes ==
    /\ pc = "percent"
    /\ fn = "plot_parameters"
    /\ calls' = calls \o PercentFixup(multiplicative_axes)
    /\ pc' = "done"
    /\ UNCHANGED <<fn, m, fcst, args, components, panel, renderers,
                   multiplicative_axes, err>>

\* the weight matrices plot_lagged_weights is tried on, as rows [horizon][lag]
Matrices(h, l) == [1..h -> [1..l -> {-1, 0, 2}]]

ScenarioWeights == << <<1, -2, 0, 1>>, <<0, 1, 1, -1>>, <<2, 0, -1, 1>> >>

WeightMatrices ==
    UNION { Matrices(h, l) : h \in 1..MaxWeightRows, l \in 1..MaxWeightLags }
        \cup {ScenarioWeights}

\* plot_lagged_weights(weights, comp_name, focus, ax)
Call_plot_lagged_weights ==
    /\ pc = "start"
    /\ \E weights \in WeightMatrices, focus \in OptionalInt(1, MaxFocus) :
         Finish("plot_lagged_weights", m, fcst,
                [weights |-> weights, comp_name |-> s_AR, focus |-> focus],
                plot_lagged_weights(weights, s_AR, focus, 1))

NextPlot == Call_plot
SpecPlot == Init /\ [][NextPlot]_vars

NextOverlay == Call_plot_multiforecast_component
SpecOverlay == Init /\ [][NextOverlay]_vars

NextComponents ==
    \/ Call_plot_components
    \/ AllocatePanels
    \/ DispatchPanel
    \/ Layout
    \/ ResetPercentAxes
SpecComponents == Init /\ [][NextComponents]_vars

NextParameters ==
    \/ Call_plot_parameters
    \/ AllocateParameterPanels
    \/ DispatchParameterPanel
    \/ ParameterLayout
    \/ ResetParameterPercentAxes
SpecParameters == Init /\ [][NextParameters]_vars

NextLagged == Call_plot_lagged_weights
SpecLagged == Init /\ [][NextLagged]_vars

-----------------------------------------------------------------------------
(* Properties *)

Done(f) == pc = "done" /\ fn = f

\* the draw calls (ax.plot / ax.bar) made so far, in order
Marks == SelectSeq(calls, IsMark)

\* the largest k with columns <prefix>1 .. <prefix>k all in the table
RECURSIVE HorizonsFrom(_, _, _)
HorizonsFrom(df, prefix, k) ==
    IF HasColumn(df, prefix \o Str(k + 1)) THEN HorizonsFrom(df, prefix, k + 1) ELSE k

HorizonCount(df, prefix) == HorizonsFrom(df, prefix, 0)

\* C1: plot draws, in this order, the k overlay lines yhat1..yhatk, then (only
\* if highlight_forecast is given) the solid line and the 'x' markers of
\* column yhat<highlight_forecast>, then the points of column y; with
\* highlight_forecast = None no highlight mark is drawn.
C1_PlotDrawOrder ==
    Done("plot") =>
        LET k == HorizonCount(fcst, s_yhat)
            h == args.highlight_forecast
            extra == IF IsNone(h) THEN 0 ELSE 2
        IN  (k >= 1 /\ (IsNone(h) \/ Val(h) <= k)) =>
              /\ err = ""
              /\ Len(Marks) = k + extra + 1
              /\ \A i \in 1..k :
                   /\ Marks[i].col = s_yhat \o Str(i)
                   /\ Marks[i].style = "-"
                   /\ Marks[i].color = "#0072B2"
              /\ ~IsNone(h) =>
                   /\ Marks[k + 1].col = s_yhat \o Str(Val(h))
                   /\ Marks[k + 1].style = "-"
                   /\ Marks[k + 2].col = s_yhat \o Str(Val(h))
                   /\ Marks[k + 2].style = "bx"
                   /\ Marks[k + 1].color = "b" /\ Marks[k + 2].color = "b"
              /\ Marks[k + extra + 1].col = s_y
              /\ Marks[k + extra + 1].style = "k."
              /\ IsNone(h) => \A i \in 1..Len(Marks) : Marks[i].color # "b"

C1_Witness ==
    /\ Done("plot")
    /\ err = ""
    /\ args.highlight_forecast = Some(2)
    /\ HorizonCount(fcst, s_yhat) = 3
    /\ Len(Marks) = 6

\* the arguments of the recorded overlay call
OverplotArg == Kw(args, "num_overplot", None)
OverlayPrefix == args.comp_name

\* C6: with num_overplot = n, 1 <= n <= number of horizon columns, the overlaid
\* series are drawn in the order i = n-1, ..., 0 (column <prefix><i+1>), each
\* with alpha(i) = 0.2 + 1.2*0.8/(i+1.2) = (i+6)/(5i+6); the alphas strictly
\* increase in drawing order, lie in (0.2, 1], and column <prefix>1, with alpha
\* exactly 1, is the last overlaid series drawn.
C6_OverlayOrderAndAlpha ==
    (Done("plot_multiforecast_component") /\ ~IsNone(OverplotArg)) =>
        LET n == Val(OverplotArg)
        IN  (1 <= n /\ n <= HorizonCount(fcst, OverlayPrefix)) =>
              /\ err \in {"", "KeyError"}
              /\ Len(Marks) >= n
              /\ \A j \in 1..n :
                   LET i == n - j
                       a == Marks[j].alpha
                   IN  /\ Marks[j].col = OverlayPrefix \o Str(i + 1)
                       /\ Marks[j].color = "#0072B2"
                       /\ a[1] * (5 * i + 6) = a[2] * (i + 6)
                       /\ RLess(Rat(1, 5), a) /\ RLeq(a, RInt(1))
              /\ \A j \in 1..(n - 1) : RLess(Marks[j].alpha, Marks[j + 1].alpha)
              /\ Marks[n].col = OverlayPrefix \o Str(1)
              /\ Marks[n].alpha = RInt(1)

C6_Witness ==
    /\ Done("plot_multiforecast_component")
    /\ err = ""
    /\ OverplotArg = Some(3)
    /\ Len(Marks) = 3
    /\ Marks[1].col = s_ar \o Str(3)
    /\ Marks[3].col = s_ar \o Str(1)

\* the positions of the solid-colour focus series among the draw calls
FocusMarks == { j \in 1..Len(Marks) : Marks[j].color = "b" }

\* C7 as claimed: with num_overplot = n given, the solid-colour focus series is
\* drawn, after all overlaid series, if and only if focus > n; a focus horizon
\* among the n overlaid ones is not drawn a second time.
C7_FocusDrawnIffBeyondOverplot ==
    (Done("plot_multiforecast_component") /\ ~IsNone(OverplotArg) /\ err = "") =>
        LET n == Val(OverplotArg)
        IN  /\ (args.focus > n) <=> (FocusMarks = {Len(Marks)} /\ Len(Marks) = n + 1)
            /\ (args.focus <= n) => FocusMarks = {}

\* C7 as amended: with num_overplot = n given and the call returning, the
\* solid-colour focus series (column <prefix><focus>) is drawn, after all n
\* overlaid series, if and only if focus > 1, also when focus <= n; the call
\* returns whenever n is within the horizon columns and the focus column exists.
C7_FocusDrawnIffAboveOne ==
    (Done("plot_multiforecast_component") /\ ~IsNone(OverplotArg)) =>
        LET n == Val(OverplotArg)
            focus_col == OverlayPrefix \o Str(args.focus)
        IN  /\ (n <= HorizonCount(fcst, OverlayPrefix)
                  /\ (args.focus = 1 \/ HasColumn(fcst, focus_col))) => err = ""
            /\ err = "" =>
                 /\ (args.focus > 1) <=> (FocusMarks # {})
                 /\ args.focus > 1 =>
                      /\ Len(Marks) = n + 1
                      /\ FocusMarks = {n + 1}
                      /\ Marks[n + 1].col = focus_col
                 /\ args.focus = 1 => Len(Marks) = n

C7_Witness ==
    /\ Done("plot_multiforecast_component")
    /\ err = ""
    /\ OverplotArg = Some(3)
    /\ args.focus = 2
    /\ Len(Marks) = 4
    /\ Marks[4].color = "b"

\* C8: called without num_overplot (None, its default) the overlay renderer
\* returns and draws exactly one series: column <prefix><focus> with its null
\* rows dropped.
C8_DefaultDrawsOnlyFocus ==
    (Done("plot_multiforecast_component") /\ IsNone(OverplotArg)
       /\ HasColumn(fcst, OverlayPrefix \o Str(args.focus))) =>
        /\ err = ""
        /\ Len(Marks) = 1
        /\ Marks[1].col = OverlayPrefix \o Str(args.focus)
        /\ Marks[1].x = NotNullRows(fcst, OverlayPrefix \o Str(args.focus))

\* C9: whenever num_overplot exceeds the number of horizon columns
\* <prefix>1..<prefix>n of the table, the call fails before any series is
\* drawn, also when other columns share the prefix.
C9_TooManyOverplotsFailBeforeDrawing ==
    (Done("plot_multiforecast_component") /\ ~IsNone(OverplotArg)
       /\ Val(OverplotArg) > HorizonCount(fcst, OverlayPrefix)) =>
        /\ err # ""
        /\ Marks = <<>>

\* the configuration of the model of the running call, as counts
SeasonPeriods == IF IsNone(m.season_config) THEN <<>> ELSE Val(m.season_config).periods
CovarNames == IF IsNone(m.covar_config) THEN <<>> ELSE Val(m.covar_config)
InFocus == IF IsNone(args.forecast_in_focus) THEN 0 ELSE 1
ArPanels == IF m.n_lags > 0 THEN 1 + InFocus ELSE 0
FirstCovarPanel(j) == 1 + Len(SeasonPeriods) + ArPanels + (j - 1) * (1 + InFocus) + 1
HasResiduals == HasColumn(fcst, s_residuals)

\* C2: the descriptor list of plot_components is Trend first; one seasonal
\* descriptor per configured seasonality in registry order; if n_lags > 0
\* Auto-Regression, followed by 'AR Forecast k' iff forecast_in_focus = k is
\* given; per covariate its Covariate descriptor followed by its focus variant
\* iff forecast_in_focus is given; Residuals last iff the table has a
\* 'residuals' column. Building it raises nothing and the number of sub-plots
\* allocated is the number of descriptors, at least 1.
C2_ComponentSequence ==
    (fn = "plot_components") =>
        LET ns == Len(SeasonPeriods)
            nc == Len(CovarNames)
            k == Str(Val(args.forecast_in_focus))
            last == Len(components)
        IN  /\ last = 1 + ns + ArPanels + nc * (1 + InFocus)
                        + (IF HasResiduals THEN 1 ELSE 0)
            /\ components[1].plot_name = s_Trend
            /\ components[1].comp_name = s_trend
            /\ \A i \in 1..ns :
                 /\ components[1 + i].plot_name = SeasonPeriods[i].name \o s__seasonality
                 /\ components[1 + i].comp_name = s_season_ \o SeasonPeriods[i].name
            /\ m.n_lags > 0 =>
                 /\ components[ns + 2].plot_name = s_Auto_Regression
                 /\ components[ns + 2].comp_name = s_ar
                 /\ InFocus = 1 =>
                      /\ components[ns + 3].plot_name = s_AR_Forecast_ \o k
                      /\ components[ns + 3].comp_name = s_ar \o k
            /\ \A j \in 1..nc :
                 /\ components[FirstCovarPanel(j)].plot_name
                        = s_Covariate_q \o CovarNames[j] \o s_q
                 /\ components[FirstCovarPanel(j)].comp_name = s_covar_ \o CovarNames[j]
                 /\ InFocus = 1 =>
                      /\ components[FirstCovarPanel(j) + 1].plot_name
                             = s_COV_q \o CovarNames[j] \o s_q_Forecast_ \o k
                      /\ components[FirstCovarPanel(j) + 1].comp_name
                             = s_covar_ \o CovarNames[j] \o k
            /\ HasResiduals =>
                 /\ components[last].plot_name = s_Residuals
                 /\ components[last].comp_name = s_residuals
            /\ pc = "subplots" => err = ""
            /\ pc \notin {"start", "subplots"} =>
                 /\ calls[1] = Subplots(last)
                 /\ calls[1].npanel >= 1

C2_Witness ==
    /\ fn = "plot_components"
    /\ pc = "dispatch"
    /\ m.n_lags > 0
    /\ Len(SeasonPeriods) = 2
    /\ Len(CovarNames) = 2
    /\ InFocus = 1
    /\ HasResiduals
    /\ Len(components) = 10

\* the renderer the kind of descriptor i calls for: the multi-series renderer
\* for the descriptors carrying num_overplot (plain Auto-Regression and plain
\* Covariate), the single-series renderer for every other one
RendererOfKind(comp) ==
    IF "num_overplot" \in DOMAIN comp THEN "plot_multiforecast_component"
    ELSE "plot_forecast_component"

\* C3: every descriptor is dispatched to the renderer of its kind, whatever the
\* seasonality or covariate name: no descriptor carrying num_overplot reaches
\* the single-series renderer, and no dispatch fails on its arguments.
C3_DispatchByKind ==
    (fn = "plot_components") =>
        /\ \A i \in 1..Len(renderers) : renderers[i] = RendererOfKind(components[i])
        /\ err \notin {"TypeError", "AttributeError"}

\* the positions in calls of the percent conversions of axes ax, and of the layout
PercentCalls(ax) ==
    { p \in 1..Len(calls) : calls[p].op = "set_y_as_percent" /\ calls[p].ax = ax }
LayoutCalls == { p \in 1..Len(calls) : calls[p].op = "tight_layout" }

\* C4: when the seasonality mode is 'multiplicative' the panel of every
\* configured seasonality is converted to percent labels exactly once, after
\* tight_layout; when it is not, no panel is converted.
C4_SeasonPanelsPercentAfterLayout ==
    (Done("plot_components") /\ err = "") =>
        IF ~IsNone(m.season_config) /\ Val(m.season_config).mode = "multiplicative"
        THEN \A i \in 1..Len(SeasonPeriods) :
               /\ Cardinality(PercentCalls(1 + i)) = 1
               /\ \A p \in PercentCalls(1 + i) : \E q \in LayoutCalls : q < p
        ELSE \A ax \in 1..Len(components) : PercentCalls(ax) = {}

\* the panels of plot_parameters that are meant to show percent labels: the
\* seasonality panels under multiplicative mode, the no-focus lagged-weights panels
PercentPanels ==
    { i \in 1..Len(components) :
        LET name == Lower(components[i].plot_name)
        IN  \/ /\ name = s_seasonality
               /\ Val(m.season_config).mode = "multiplicative"
            \/ /\ name = s_lagged_weights
               /\ IsNone(components[i].focus) }

\* C5: during a plot_parameters call no panel is converted to percent labels
\* before tight_layout has run, and every panel meant to show percent labels
\* is converted after it.
C5_ParameterPercentOnlyAfterLayout ==
    (fn = "plot_parameters") =>
        /\ \A p \in 1..Len(calls) :
             calls[p].op = "set_y_as_percent" => \E q \in LayoutCalls : q < p
        /\ (pc = "done" /\ err = "") =>
             \A i \in PercentPanels :
               \E p \in PercentCalls(i) : \E q \in LayoutCalls : q < p

\* C10: with focus = None and a weight matrix [H horizons, L lags] with a
\* non-zero entry, the bar chart has exactly L values at lag numbers L, ..., 1;
\* value j is the sum over horizons of |weights[h, j]| over the sum of all
\* |weights|, so the values are non-negative and sum to 1.
C10_LaggedWeightsNormalized ==
    (Done("plot_lagged_weights") /\ IsNone(args.focus)) =>
        LET w == args.weights
            H == Len(w)
            L == Len(w[1])
            col(j) == SumSeq([h \in 1..H |-> Abs(w[h][j])])
            total == SumSeq([j \in 1..L |-> col(j)])
        IN  total # 0 =>
              /\ err = ""
              /\ Len(Marks) = 1
              /\ Marks[1].op = "bar"
              /\ Len(Marks[1].height) = L
              /\ Marks[1].x = [j \in 1..L |-> L - j + 1]
              /\ \A j \in 1..L :
                   /\ Marks[1].height[j][2] > 0
                   /\ Marks[1].height[j][1] >= 0
                   /\ Marks[1].height[j][1] * total = Marks[1].height[j][2] * col(j)

\* the panel of the i-th configured seasonality in plot_parameters
SeasonPanel(i) == (IF m.n_changepoints > 0 THEN 1 ELSE 0) + i

\* a seasonality is weekly-shaped by name 'weekly' (any case) or period 7,
\* yearly-shaped by name 'yearly' or period 365.25
WeeklyShaped(s) == Lower(s.name) = s_weekly \/ s.period = <<7, 1>>
YearlyShaped(s) == Lower(s.name) = s_yearly \/ s.period = <<1461, 4>>

RoutedTo(s) ==
    IF WeeklyShaped(s) THEN "plot_weekly"
    ELSE IF YearlyShaped(s) THEN "plot_yearly"
    ELSE "plot_custom_season"

\* the configured seasonalities that are neither weekly- nor yearly-shaped
CustomSeasons ==
    { i \in 1..Len(SeasonPeriods) :
        ~WeeklyShaped(SeasonPeriods[i]) /\ ~YearlyShaped(SeasonPeriods[i]) }

\* C11: plot_parameters routes a seasonality to the weekly renderer if it is
\* weekly-shaped, otherwise to the yearly renderer if it is yearly-shaped,
\* otherwise to the custom renderer, which raises NotImplementedError. The
\* call ends with NotImplementedError if and only if some configured
\* seasonality is neither; it then ends at that panel, before tight_layout,
\* with nothing drawn on the panel, and the panel is never passed over.
C11_CustomSeasonRaises ==
    (fn = "plot_parameters") =>
        /\ \A i \in 1..Len(SeasonPeriods) :
             SeasonPanel(i) <= Len(renderers) =>
               /\ renderers[SeasonPanel(i)] = RoutedTo(SeasonPeriods[i])
               /\ i \in CustomSeasons => err = "NotImplementedError"
        /\ pc = "done" => (err = "NotImplementedError" <=> CustomSeasons # {})
        /\ err = "NotImplementedError" =>
             /\ pc = "done"
             /\ LayoutCalls = {}
             /\ \E i \in CustomSeasons :
                  /\ panel = SeasonPanel(i)
                  /\ \A j \in CustomSeasons : i <= j
             /\ \A p \in 1..Len(calls) : IsMark(calls[p]) => calls[p].ax < panel

C11_Witness ==
    /\ Done("plot_parameters")
    /\ err = "NotImplementedError"
    /\ m.n_changepoints > 0
    /\ panel = 3
    /\ renderers = <<"plot_trend_change", "plot_weekly", "plot_custom_season">>
    /\ Len(Marks) = 2

\* the descriptors plot_parameters builds before the trend fallback, as counts
ChangepointPanels == IF m.n_changepoints > 0 THEN 1 ELSE 0
FirstLaggedPanel(j) ==
    ChangepointPanels + Len(SeasonPeriods) + ArPanels + (j - 1) * (1 + InFocus) + 1
ConfiguredPanels ==
    ChangepointPanels + Len(SeasonPeriods) + ArPanels + Len(CovarNames) * (1 + InFocus)

\* the conditions of the dispatch chain of plot_parameters a plot name meets
MatchedBranches(plot_name) ==
    { b \in {"trend", "seasonality", "lagged weights"} :
        CASE b = "trend" -> StartsWith(Lower(plot_name), s_trend)
          [] b = "seasonality" -> StartsWith(Lower(plot_name), s_seasonality)
          [] OTHER -> Lower(plot_name) = s_lagged_weights }

\* descriptor i is the 'lagged weights' descriptor of source comp_name with focus f
IsLagged(i, comp_name, f) ==
    /\ components[i].plot_name = s_lagged_weights
    /\ components[i].comp_name = comp_name
    /\ components[i].focus = f

\* C12: plot_parameters allocates at least one panel and leaves no allocated
\* panel empty. Its descriptors are 'Trend changepoints' iff n_changepoints > 0,
\* one per configured seasonality, one 'lagged weights' descriptor per AR /
\* covariate source plus a focus duplicate iff forecast_in_focus is given; the
\* 'Trend' descriptor is present iff the list would otherwise be empty; every
\* descriptor meets exactly one condition of the dispatch chain, a renderer is
\* called for it, and every panel dispatched without an exception holds a mark.
C12_ParameterPanelsNeverEmpty ==
    (fn = "plot_parameters") =>
        LET ns == Len(SeasonPeriods)
            n == Len(components)
        IN  /\ n = (IF ConfiguredPanels = 0 THEN 1 ELSE ConfiguredPanels)
            /\ n >= 1
            /\ (\E i \in 1..n : components[i].plot_name = s_Trend)
                   <=> ConfiguredPanels = 0
            /\ (components[1].plot_name = s_Trend_changepoints) <=> m.n_changepoints > 0
            /\ \A i \in 2..n : components[i].plot_name # s_Trend_changepoints
            /\ \A i \in 1..ns :
                 /\ components[SeasonPanel(i)].plot_name = s_seasonality
                 /\ components[SeasonPanel(i)].comp_name = SeasonPeriods[i].name
            /\ m.n_lags > 0 =>
                 /\ IsLagged(ChangepointPanels + ns + 1, s_AR, None)
                 /\ InFocus = 1 =>
                      IsLagged(ChangepointPanels + ns + 2, s_AR, args.forecast_in_focus)
            /\ \A j \in 1..Len(CovarNames) :
                 LET source == s_COV_q \o CovarNames[j] \o s_q
                 IN  /\ IsLagged(FirstLaggedPanel(j), source, None)
                     /\ InFocus = 1 =>
                          IsLagged(FirstLaggedPanel(j) + 1, source, args.forecast_in_focus)
            /\ \A i \in 1..n : Cardinality(MatchedBranches(components[i].plot_name)) = 1
            /\ \A i \in 1..Len(renderers) : renderers[i] # ""
            /\ pc \notin {"start", "subplots"} =>
                 /\ calls[1] = Subplots(n)
                 /\ \A ax \in 1..n :
                      (ax < panel \/ (pc = "done" /\ err = "")) =>
                        \E p \in 1..Len(calls) : IsMark(calls[p]) /\ calls[p].ax = ax

C12_Witness ==
    /\ Done("plot_parameters")
    /\ err = ""
    /\ components = << [plot_name |-> s_Trend] >>
    /\ renderers = <<"plot_trend_0">>
    /\ Len(Marks) = 1

====
